---- MODULE Spec2Model ----
(***************************************************************************)
(* Wallet session and dashboard request coordination of the DeFi portfolio *)
(* frontend: the WalletProvider component (contexts/WalletContext.jsx),    *)
(* the dashboard service with its localStorage cache                       *)
(* (apiservices/dashboardService.js) and the wallet utilities              *)
(* (utils/wallet.js).                                                      *)
(*                                                                         *)
(* One step of the model is one run-to-completion segment of the event     *)
(* loop: a handler from its call (or from the resumption of an await) to   *)
(* its next await on the provider, on the dashboard endpoint or on a       *)
(* timer.  The reducer state is read by the handlers through the closure   *)
(* of the render that created them; module-level variables                 *)
(* (dashboardRequestInProgress, requestCounter) are read live.             *)
(***************************************************************************)
EXTENDS Integers, Sequences, FiniteSets, TLC

\* ------------------------------------------------------------------ bounds
\* Number of stimuli (user actions, provider events, clock ticks) in a run.
MaxCalls == 2

\* --------------------------------------------------------------- constants
DASHBOARD_REQUEST_RATE_LIMIT_MS == 60 * 1000
CACHE_DURATION == 5 * 60 * 1000
TickMs == DASHBOARD_REQUEST_RATE_LIMIT_MS
StartMs == CACHE_DURATION + TickMs

Null == "null"
NullTime == 0
Addresses == {"0xA1", "0xB2"}
NoData == [wallet |-> Null, timestamp |-> 0]
NoNetwork == [chainId |-> 0, name |-> Null]
Mainnet == [chainId |-> 1, name |-> "mainnet"]

ErrNotInstalled == "MetaMask is not installed. Please install MetaMask to continue."
ErrConnectFailed == "Failed to connect wallet"
ErrRejected == "Connection rejected by user"
ErrPending == "Connection request already pending"
ErrProvider == "provider message"
ErrDashboard == "Failed to load portfolio data"
ErrManualGuidance == "Disconnected locally. For complete disconnect, click the MetaMask extension"
ErrStillConnected == "For complete disconnect, please manually disconnect from MetaMask extension."
ErrForceFailed == "Force disconnect failed: provider message"

VARIABLES
  state,                      \* useReducer(walletReducer, initialState)
  dashboardRequestInProgress, \* module-level request lock
  requestCounter,             \* module-level request counter
  localStorage,               \* per address: dashboard_data_ / dashboard_last_updated_
  fetches,                    \* dashboard HTTP requests awaiting their response
  connects,                   \* connect() calls awaiting connectMetaMask()
  checkPending,               \* on-mount checkConnection awaiting getCurrentAccount()
  accountHandlers,            \* handleAccountsChanged calls awaiting getCurrentAccount()
  disconnects,                \* disconnect() calls, by the await they are suspended on
  clearErrorTimer,            \* some setTimeout(CLEAR_ERROR) is pending
  forceResets,                \* forceDisconnect() calls, by what they are waiting for
  appTimer,                   \* AppContent's 1000 ms timer is pending and will refresh
  metaMaskInstalled,          \* window.ethereum is defined
  providerAccount,            \* account the provider currently exposes to the site
  now,                        \* Date.now()
  calls,                      \* stimuli received so far
  lastCall                    \* the handler segment that ran last, with its outcome

vars == <<state, dashboardRequestInProgress, requestCounter, localStorage, fetches,
          connects, checkPending, accountHandlers, disconnects, clearErrorTimer,
          forceResets, appTimer, metaMaskInstalled, providerAccount, now, calls,
          lastCall>>

\* ----------------------------------------------------------- reducer state
initialState ==
  [isConnected |-> FALSE,
   account |-> Null,
   balance |-> "0",
   network |-> NoNetwork,
   isConnecting |-> FALSE,
   error |-> Null,
   dashboardData |-> NoData,
   isLoadingDashboard |-> FALSE,
   hasLoadedDashboardThisSession |-> FALSE,
   lastDashboardRequestTime |-> NullTime]

\* The SET_CONNECTED case of the reducer.
SetConnected_StillConnecting(s, payload) ==
  [s EXCEPT !.isConnected = TRUE,
            !.account = payload.address, !.balance = payload.balance,
            !.network = payload.network, !.error = Null]

SetConnected(s, payload) ==
  [s EXCEPT !.isConnected = TRUE, !.isConnecting = FALSE,
            !.account = payload.address, !.balance = payload.balance,
            !.network = payload.network, !.error = Null]

\* The SET_DISCONNECTED case of the reducer.
SetDisconnected_KeepsSession(s) ==
  [initialState EXCEPT !.hasLoadedDashboardThisSession = s.hasLoadedDashboardThisSession]

SetDisconnected(s) == initialState

\* The SET_ERROR case of the reducer.
SetError_KeepsConnecting(s, payload) == [s EXCEPT !.error = payload]

SetError(s, payload) == [s EXCEPT !.isConnecting = FALSE, !.error = payload]

\* The SET_DASHBOARD_DATA case of the reducer.
SetDashboardData_NoSessionFlag(s, payload) ==
  [s EXCEPT !.dashboardData = payload, !.isLoadingDashboard = FALSE]

SetDashboardData(s, payload) ==
  [s EXCEPT !.dashboardData = payload, !.isLoadingDashboard = FALSE,
            !.hasLoadedDashboardThisSession = TRUE]

\* The SET_DASHBOARD_ERROR case of the reducer.
SetDashboardError_Disconnects(s, payload) == [initialState EXCEPT !.error = payload]

SetDashboardError(s, payload) ==
  [s EXCEPT !.isLoadingDashboard = FALSE, !.error = payload]

walletReducer(s, type, payload) ==
  CASE type = "SET_CONNECTING" ->
         [s EXCEPT !.isConnecting = TRUE, !.error = Null]
    [] type = "SET_CONNECTED" -> SetConnected(s, payload)
    [] type = "SET_DISCONNECTED" -> SetDisconnected(s)
    [] type = "SET_ERROR" -> SetError(s, payload)
    [] type = "CLEAR_ERROR" -> [s EXCEPT !.error = Null]
    [] type = "SET_LOADING_DASHBOARD" -> [s EXCEPT !.isLoadingDashboard = payload]
    [] type = "SET_DASHBOARD_DATA" -> SetDashboardData(s, payload)
    [] type = "SET_DASHBOARD_ERROR" -> SetDashboardError(s, payload)
    [] type = "SET_DASHBOARD_LOADED_THIS_SESSION" ->
         [s EXCEPT !.hasLoadedDashboardThisSession = payload]
    [] type = "SET_LAST_DASHBOARD_REQUEST_TIME" ->
         [s EXCEPT !.lastDashboardRequestTime = payload]
    [] OTHER -> s

\* The values of the reducer state a handler sees: those of the render
\* that created it.
Closure(s) ==
  [hasLoadedDashboardThisSession |-> s.hasLoadedDashboardThisSession,
   lastDashboardRequestTime |-> s.lastDashboardRequestTime]

\* ------------------------------------------------------- dashboard service
NoEntry == [data |-> NoData, lastUpdated |-> NullTime]

\* Stored texts that are not what cacheData writes: a timestamp text that
\* parseInt reads as NaN, a document text that JSON.parse rejects, and keys
\* whose access throws (storage denied to the page).
NotANumber == -1
Unparseable == [wallet |-> "unparseable", timestamp |-> 0]
Inaccessible == [data |-> [wallet |-> "inaccessible", timestamp |-> 0],
                 lastUpdated |-> NullTime]

StorageThrows(walletAddress) == localStorage[walletAddress] = Inaccessible

\* The try block throws and the catch returns false; NaN < CACHE_DURATION is
\* false.
isCacheValid(walletAddress) ==
  IF StorageThrows(walletAddress) THEN FALSE
  ELSE LET lastUpdated == localStorage[walletAddress].lastUpdated
       IN IF lastUpdated = NullTime THEN FALSE
          ELSE IF lastUpdated = NotANumber THEN FALSE
          ELSE now - lastUpdated < CACHE_DURATION

\* getCachedData without the catch around JSON.parse.
getCachedData_NoCatch(walletAddress) ==
  IF ~isCacheValid(walletAddress) THEN NoData
  ELSE localStorage[walletAddress].data

getCachedData(walletAddress) ==
  IF ~isCacheValid(walletAddress) THEN NoData
  ELSE LET cachedData == localStorage[walletAddress].data
       IN IF cachedData = Unparseable THEN NoData ELSE cachedData

\* The read getDashboardData falls back on when its request has failed.
FallbackRead(walletAddress) == getCachedData(walletAddress)

cacheData_SharedKey(walletAddress, data) ==
  [a \in DOMAIN localStorage |-> [data |-> data, lastUpdated |-> now]]

\* setItem throws for keys that cannot be accessed; the catch logs it.
cacheData(walletAddress, data) ==
  IF StorageThrows(walletAddress) THEN localStorage
  ELSE [localStorage EXCEPT ![walletAddress] = [data |-> data, lastUpdated |-> now]]

\* The document the dashboard endpoint returns for an address.
Response(walletAddress) == [wallet |-> walletAddress, timestamp |-> now \div 1000]

\* ---------------------------------------------------------- wallet utils
walletData(a) == [address |-> a, balance |-> "0.5", network |-> Mainnet]


\* getCurrentAccount(): the account the provider exposes when the call
\* resolves, or null (no provider, no account, or any provider error).
CurrentAccountResults ==
  {Null} \cup (IF metaMaskInstalled /\ providerAccount # Null THEN {providerAccount} ELSE {})

\* clearWalletCache() removes the keys that contain "wallet", "metamask" or
\* "ethereum"; the dashboard keys are "dashboard_data_" and
\* "dashboard_last_updated_" followed by a hexadecimal address.
KeyIsWalletRelated_Any(walletAddress) == TRUE

KeyIsWalletRelated(walletAddress) == FALSE

clearWalletCache(storage) ==
  [a \in DOMAIN storage |-> IF KeyIsWalletRelated(a) THEN NoEntry ELSE storage[a]]

\* ------------------------------------------------------------- bookkeeping
Call(op, walletAddress, forceRefresh, outcome) ==
  [op |-> op, walletAddress |-> walletAddress, forceRefresh |-> forceRefresh,
   outcome |-> outcome]

\* lastCall records the calls of loadDashboardData for an address, the
\* answers to its requests and the restart of the page by handleChainChanged;
\* every other step leaves NoCall.
NoCall == Call("none", Null, FALSE, "none")

\* No forceDisconnect() is awaiting the revocation or the reload timer.
NoForceResets == [revoke |-> 0, reload |-> 0]

\* A step started from outside (user, provider event, clock) counts against
\* the bound of the run; the resumption of a pending await does not.
Stimulus == calls < MaxCalls /\ calls' = calls + 1

Reaction == UNCHANGED calls

\* ---------------------------------------------------- AppContent effect
\* The effect of AppContent with dependencies [isConnected,
\* hasLoadedDashboardThisSession]: when either changes, the pending timer is
\* cancelled and a new 1000 ms timer is set, whose callback refreshes only if
\* the render that set it was connected and had not loaded.
AppEffect ==
  appTimer' =
    IF \/ state'.isConnected # state.isConnected
       \/ state'.hasLoadedDashboardThisSession # state.hasLoadedDashboardThisSession
    THEN state'.isConnected /\ ~state'.hasLoadedDashboardThisSession
    ELSE appTimer

\* ------------------------------------------- dashboard service: removal
\* clearCachedData(walletAddress), exported by the dashboard service.
clearCachedData(walletAddress) ==
  /\ Stimulus
  /\ localStorage' = IF StorageThrows(walletAddress) THEN localStorage
                     ELSE [localStorage EXCEPT ![walletAddress] = NoEntry]
  /\ lastCall' = NoCall
  /\ UNCHANGED <<state, dashboardRequestInProgress, requestCounter, fetches, connects,
                 checkPending, accountHandlers, disconnects, clearErrorTimer,
                 forceResets, metaMaskInstalled, providerAccount, now>>
  /\ AppEffect

\* clearAllCachedData(), exported by the dashboard service.
clearAllCachedData ==
  /\ Stimulus
  /\ localStorage' = [a \in DOMAIN localStorage |->
                        IF StorageThrows(a) THEN localStorage[a] ELSE NoEntry]
  /\ lastCall' = NoCall
  /\ UNCHANGED <<state, dashboardRequestInProgress, requestCounter, fetches, connects,
                 checkPending, accountHandlers, disconnects, clearErrorTimer,
                 forceResets, metaMaskInstalled, providerAccount, now>>
  /\ AppEffect

\* --------------------------------------------------- WalletProvider: load
canMakeDashboardRequest_Strict(cl) ==
  IF cl.lastDashboardRequestTime = NullTime THEN TRUE
  ELSE now - cl.lastDashboardRequestTime > DASHBOARD_REQUEST_RATE_LIMIT_MS

canMakeDashboardRequest(cl) ==
  IF cl.lastDashboardRequestTime = NullTime THEN TRUE
  ELSE now - cl.lastDashboardRequestTime >= DASHBOARD_REQUEST_RATE_LIMIT_MS

ConcurrentRequest_NoLock == FALSE

ConcurrentRequest == dashboardRequestInProgress

AlreadyLoadedSkip(cl, forceRefresh) ==
  cl.hasLoadedDashboardThisSession /\ ~forceRefresh

RateLimitedSkip(cl, forceRefresh) ==
  ~forceRefresh /\ ~canMakeDashboardRequest(cl)

\* requestCounter after a call that found the lock held: the counter is
\* incremented after the lock check.
CounterWhenBlocked_Counted == requestCounter + 1

CounterWhenBlocked == requestCounter

\* getDashboardData() up to its first await: the cached document when one is
\* served without a request, NoData when the request is sent.
CacheRead_IgnoresForce(walletAddress, forceRefresh) == getCachedData(walletAddress)

CacheRead(walletAddress, forceRefresh) ==
  IF ~forceRefresh THEN getCachedData(walletAddress) ELSE NoData

\* The lock after the finally block of loadDashboardData.
LockAfterFinally_Held == TRUE

LockAfterFinally == FALSE

\* loadDashboardData(walletAddress, forceRefresh) called on reducer state s by
\* a handler whose closure is cl, up to the await of the HTTP request.  A
\* document served from the cache resolves in the same turn of the event loop.
loadDashboardData(s, walletAddress, forceRefresh, cl, via) ==
  IF walletAddress = Null THEN
    /\ state' = s
    /\ lastCall' = NoCall
    /\ UNCHANGED <<dashboardRequestInProgress, requestCounter, fetches>>
  ELSE IF ConcurrentRequest THEN
    /\ state' = s
    /\ requestCounter' = CounterWhenBlocked
    /\ lastCall' = Call(via, walletAddress, forceRefresh, "in-progress")
    /\ UNCHANGED <<dashboardRequestInProgress, fetches>>
  ELSE
    /\ requestCounter' = requestCounter + 1
    /\ IF AlreadyLoadedSkip(cl, forceRefresh) THEN
         /\ state' = s
         /\ lastCall' = Call(via, walletAddress, forceRefresh, "already-loaded")
         /\ UNCHANGED <<dashboardRequestInProgress, fetches>>
       ELSE IF RateLimitedSkip(cl, forceRefresh) THEN
         /\ state' = s
         /\ lastCall' = Call(via, walletAddress, forceRefresh, "rate-limited")
         /\ UNCHANGED <<dashboardRequestInProgress, fetches>>
       ELSE
         LET s1 == walletReducer(s, "SET_LOADING_DASHBOARD", TRUE)
             s2 == walletReducer(s1, "SET_LAST_DASHBOARD_REQUEST_TIME", now)
             cachedData == CacheRead(walletAddress, forceRefresh)
         IN IF cachedData # NoData THEN
              /\ state' = walletReducer(s2, "SET_DASHBOARD_DATA", cachedData)
              /\ dashboardRequestInProgress' = LockAfterFinally
              /\ lastCall' = Call(via, walletAddress, forceRefresh, "cached")
              /\ UNCHANGED fetches
            ELSE
              /\ state' = s2
              /\ dashboardRequestInProgress' = TRUE
              /\ fetches' = fetches \cup
                   {[walletAddress |-> walletAddress, forceRefresh |-> forceRefresh,
                     currentRequestId |-> requestCounter + 1]}
              /\ lastCall' = Call(via, walletAddress, forceRefresh, "fetch")

\* The HTTP request of f is answered with a document.
FetchSuccess(f) ==
  /\ Reaction
  /\ f \in fetches
  /\ LET data == Response(f.walletAddress)
     IN /\ localStorage' = cacheData(f.walletAddress, data)
        /\ state' = walletReducer(state, "SET_DASHBOARD_DATA", data)
  /\ dashboardRequestInProgress' = LockAfterFinally
  /\ fetches' = fetches \ {f}
  /\ lastCall' = Call("fetch", f.walletAddress, f.forceRefresh, "success")
  /\ UNCHANGED <<requestCounter, connects, checkPending, accountHandlers, disconnects,
                 clearErrorTimer, forceResets, metaMaskInstalled, providerAccount, now>>
  /\ AppEffect

\* The HTTP request of f fails (network error, HTTP status, bad body).
FetchFail(f) ==
  /\ Reaction
  /\ f \in fetches
  /\ LET cachedData == FallbackRead(f.walletAddress)
     IN IF cachedData # NoData THEN
          /\ state' = walletReducer(state, "SET_DASHBOARD_DATA", cachedData)
          /\ lastCall' = Call("fetch", f.walletAddress, f.forceRefresh, "fallback")
          /\ UNCHANGED clearErrorTimer
        ELSE
          /\ state' = walletReducer(state, "SET_DASHBOARD_ERROR", ErrDashboard)
          /\ lastCall' = Call("fetch", f.walletAddress, f.forceRefresh, "error")
          /\ clearErrorTimer' = TRUE
  /\ dashboardRequestInProgress' = LockAfterFinally
  /\ fetches' = fetches \ {f}
  /\ UNCHANGED <<requestCounter, localStorage, connects, checkPending, accountHandlers,
                 disconnects, forceResets, metaMaskInstalled, providerAccount, now>>
  /\ AppEffect

\* loadDashboardData taken from the context value and called directly, for
\* the account the context shows.
LoadCall(walletAddress, forceRefresh) ==
  /\ Stimulus
  /\ loadDashboardData(state, walletAddress, forceRefresh, Closure(state), "load")
  /\ UNCHANGED <<localStorage, connects, checkPending, accountHandlers, disconnects,
                 clearErrorTimer, forceResets, metaMaskInstalled, providerAccount, now>>
  /\ AppEffect

refreshDashboardData(forceRefresh) ==
  /\ Stimulus
  /\ IF state.isConnected /\ state.account # Null THEN
       IF state.hasLoadedDashboardThisSession /\ ~forceRefresh THEN
         /\ lastCall' = Call("refresh", state.account, forceRefresh, "already-loaded")
         /\ UNCHANGED <<state, dashboardRequestInProgress, requestCounter, fetches>>
       ELSE IF ~forceRefresh /\ ~canMakeDashboardRequest(Closure(state)) THEN
         /\ lastCall' = Call("refresh", state.account, forceRefresh, "rate-limited")
         /\ UNCHANGED <<state, dashboardRequestInProgress, requestCounter, fetches>>
       ELSE loadDashboardData(state, state.account, forceRefresh, Closure(state), "refresh")
     ELSE
       /\ lastCall' = NoCall
       /\ UNCHANGED <<state, dashboardRequestInProgress, requestCounter, fetches>>
  /\ UNCHANGED <<localStorage, connects, checkPending, accountHandlers, disconnects,
                 clearErrorTimer, forceResets, metaMaskInstalled, providerAccount, now>>
  /\ AppEffect

\* AppContent: the pending timer fires; loadDashboardOnPageLoad calls the
\* refreshDashboardData of the current render with forceRefresh = true.
loadDashboardOnPageLoad ==
  /\ Reaction
  /\ appTimer
  /\ IF state.isConnected /\ state.account # Null THEN
       loadDashboardData(state, state.account, TRUE, Closure(state), "refresh")
     ELSE
       /\ lastCall' = NoCall
       /\ UNCHANGED <<state, dashboardRequestInProgress, requestCounter, fetches>>
  /\ appTimer' = FALSE
  /\ UNCHANGED <<localStorage, connects, checkPending, accountHandlers, disconnects,
                 clearErrorTimer, forceResets, metaMaskInstalled, providerAccount, now>>

\* ------------------------------------------------ WalletProvider: connect
ConnectErrorMessage_Unclassified(code) ==
  IF code = 1 THEN ErrProvider ELSE ErrConnectFailed

ConnectErrorMessage(code) ==
  IF code = 4001 THEN ErrRejected
  ELSE IF code = -32002 THEN ErrPending
  ELSE IF code = 1 THEN ErrProvider
  ELSE ErrConnectFailed

\* Error codes of a failed connectMetaMask(): user rejection, pending request,
\* another error with a message (1), another error without one (0).
ConnectErrorCodes == {4001, -32002, 1, 0}

connect_NoPresenceCheck ==
  /\ Stimulus
  /\ state' = walletReducer(state, "SET_CONNECTING", Null)
  /\ connects' = connects \cup {Closure(state)}
  /\ lastCall' = NoCall
  /\ UNCHANGED <<dashboardRequestInProgress, requestCounter, localStorage, fetches,
                 checkPending, accountHandlers, disconnects, clearErrorTimer,
                 forceResets, metaMaskInstalled, providerAccount, now>>
  /\ AppEffect

connect ==
  /\ Stimulus
  /\ IF ~metaMaskInstalled THEN
       /\ state' = walletReducer(state, "SET_ERROR", ErrNotInstalled)
       /\ lastCall' = NoCall
       /\ UNCHANGED connects
     ELSE
       /\ state' = walletReducer(state, "SET_CONNECTING", Null)
       /\ connects' = connects \cup {Closure(state)}
       /\ lastCall' = NoCall
  /\ UNCHANGED <<dashboardRequestInProgress, requestCounter, localStorage, fetches,
                 checkPending, accountHandlers, disconnects, clearErrorTimer,
                 forceResets, metaMaskInstalled, providerAccount, now>>
  /\ AppEffect

\* connectMetaMask() resolves with account a: the account already exposed to
\* the site, or the one the user authorizes.
ConnectResolve(cl, a) ==
  /\ Reaction
  /\ cl \in connects
  /\ a \in Addresses
  /\ providerAccount \in {Null, a}
  /\ providerAccount' = a
  /\ connects' = connects \ {cl}
  /\ loadDashboardData(walletReducer(state, "SET_CONNECTED", walletData(a)),
                       a, FALSE, cl, "connect")
  /\ UNCHANGED <<localStorage, checkPending, accountHandlers, disconnects,
                 clearErrorTimer, forceResets, metaMaskInstalled, now>>
  /\ AppEffect

ConnectReject(cl, code) ==
  /\ Reaction
  /\ cl \in connects
  /\ connects' = connects \ {cl}
  /\ state' = walletReducer(state, "SET_ERROR", ConnectErrorMessage(code))
  /\ lastCall' = NoCall
  /\ UNCHANGED <<dashboardRequestInProgress, requestCounter, localStorage, fetches,
                 checkPending, accountHandlers, disconnects, clearErrorTimer,
                 forceResets, metaMaskInstalled, providerAccount, now>>
  /\ AppEffect

\* The on-mount effect: checkConnection resumes with the result of
\* getCurrentAccount(); its closure is that of the first render.
checkConnection(account) ==
  /\ Reaction
  /\ checkPending
  /\ account \in CurrentAccountResults
  /\ checkPending' = FALSE
  /\ IF account # Null THEN
       loadDashboardData(walletReducer(state, "SET_CONNECTED", walletData(account)),
                         account, FALSE, Closure(initialState), "checkConnection")
     ELSE
       /\ lastCall' = NoCall
       /\ UNCHANGED <<state, dashboardRequestInProgress, requestCounter, fetches>>
  /\ UNCHANGED <<localStorage, connects, accountHandlers, disconnects, clearErrorTimer,
                 forceResets, metaMaskInstalled, providerAccount, now>>
  /\ AppEffect

\* --------------------------------------------- WalletProvider: disconnect
\* disconnect() up to the await of disconnectWallet(), on reducer state s.
disconnect(s) ==
  /\ state' = walletReducer(s, "SET_CONNECTING", Null)
  /\ localStorage' = IF metaMaskInstalled THEN clearWalletCache(localStorage)
                     ELSE localStorage
  /\ disconnects' = [disconnects EXCEPT !.wallet = @ + 1]
  /\ lastCall' = NoCall

DisconnectCall ==
  /\ Stimulus
  /\ disconnect(state)
  /\ UNCHANGED <<dashboardRequestInProgress, requestCounter, fetches, connects,
                 checkPending, accountHandlers, clearErrorTimer, forceResets, metaMaskInstalled,
                 providerAccount, now>>
  /\ AppEffect

DisconnectMethods ==
  IF metaMaskInstalled THEN {"revoke-permissions", "user-rejected", "manual"}
  ELSE {"no-metamask"}

\* disconnectWallet() resolves with a result of the given method.
DisconnectResolve_ReleasesLock(method) ==
  /\ Reaction
  /\ disconnects.wallet > 0
  /\ method \in DisconnectMethods
  /\ state' = walletReducer(state, "SET_DISCONNECTED", Null)
  /\ dashboardRequestInProgress' = FALSE
  /\ disconnects' = IF method = "manual"
                    THEN [disconnects EXCEPT !.wallet = @ - 1, !.guidance = @ + 1]
                    ELSE [disconnects EXCEPT !.wallet = @ - 1, !.verify = @ + 1]
  /\ lastCall' = NoCall
  /\ UNCHANGED <<requestCounter, localStorage, fetches,
                 connects, checkPending, accountHandlers, clearErrorTimer,
                 forceResets, metaMaskInstalled, providerAccount, now>>
  /\ AppEffect

DisconnectResolve(method) ==
  /\ Reaction
  /\ disconnects.wallet > 0
  /\ method \in DisconnectMethods
  /\ state' = walletReducer(state, "SET_DISCONNECTED", Null)
  /\ disconnects' = IF method = "manual"
                    THEN [disconnects EXCEPT !.wallet = @ - 1, !.guidance = @ + 1]
                    ELSE [disconnects EXCEPT !.wallet = @ - 1, !.verify = @ + 1]
  /\ lastCall' = NoCall
  /\ UNCHANGED <<dashboardRequestInProgress, requestCounter, localStorage, fetches,
                 connects, checkPending, accountHandlers, clearErrorTimer,
                 forceResets, metaMaskInstalled, providerAccount, now>>
  /\ AppEffect

\* shouldShowDisconnectGuidance() resolves.
DisconnectGuidance(needsGuidance) ==
  /\ Reaction
  /\ disconnects.guidance > 0
  /\ needsGuidance \in {FALSE, metaMaskInstalled /\ providerAccount # Null}
  /\ disconnects' = [disconnects EXCEPT !.guidance = @ - 1, !.verify = @ + 1]
  /\ IF needsGuidance THEN
       /\ state' = walletReducer(state, "SET_ERROR", ErrManualGuidance)
       /\ clearErrorTimer' = TRUE
     ELSE UNCHANGED <<state, clearErrorTimer>>
  /\ lastCall' = NoCall
  /\ UNCHANGED <<dashboardRequestInProgress, requestCounter, localStorage, fetches,
                 connects, checkPending, accountHandlers, forceResets, metaMaskInstalled,
                 providerAccount, now>>
  /\ AppEffect

\* The verification scheduled by disconnect(): the 1000 ms timer has fired and
\* its getCurrentAccount() has resolved.
DisconnectVerify(currentAccount) ==
  /\ Reaction
  /\ disconnects.verify > 0
  /\ currentAccount \in CurrentAccountResults
  /\ disconnects' = [disconnects EXCEPT !.verify = @ - 1]
  /\ IF currentAccount # Null THEN
       /\ state' = walletReducer(state, "SET_ERROR", ErrStillConnected)
       /\ clearErrorTimer' = TRUE
     ELSE UNCHANGED <<state, clearErrorTimer>>
  /\ lastCall' = NoCall
  /\ UNCHANGED <<dashboardRequestInProgress, requestCounter, localStorage, fetches,
                 connects, checkPending, accountHandlers, forceResets, metaMaskInstalled,
                 providerAccount, now>>
  /\ AppEffect

\* ---------------------------------------- WalletProvider: forceDisconnect
\* forceDisconnect() up to the await inside forceWalletReset().  Without a
\* provider forceWalletReset() returns at once and nothing more is done.
forceDisconnect ==
  /\ Stimulus
  /\ state' = walletReducer(state, "SET_CONNECTING", Null)
  /\ IF metaMaskInstalled THEN
       /\ localStorage' = clearWalletCache(localStorage)
       /\ forceResets' = [forceResets EXCEPT !.revoke = @ + 1]
     ELSE UNCHANGED <<localStorage, forceResets>>
  /\ lastCall' = NoCall
  /\ UNCHANGED <<dashboardRequestInProgress, requestCounter, fetches, connects,
                 checkPending, accountHandlers, disconnects, clearErrorTimer,
                 metaMaskInstalled, providerAccount, now>>
  /\ AppEffect

\* wallet_revokePermissions has settled (either way) and forceWalletReset()
\* ends: it has set the reload timer (success), or clearing the provider
\* instances threw and forceDisconnect() reports the failure.
ForceResetSettled(success) ==
  /\ Reaction
  /\ forceResets.revoke > 0
  /\ IF success THEN
       /\ forceResets' = [forceResets EXCEPT !.revoke = @ - 1, !.reload = @ + 1]
       /\ UNCHANGED state
     ELSE
       /\ forceResets' = [forceResets EXCEPT !.revoke = @ - 1]
       /\ state' = walletReducer(walletReducer(state, "SET_DISCONNECTED", Null),
                                 "SET_ERROR", ErrForceFailed)
  /\ lastCall' = NoCall
  /\ UNCHANGED <<dashboardRequestInProgress, requestCounter, localStorage, fetches,
                 connects, checkPending, accountHandlers, disconnects, clearErrorTimer,
                 metaMaskInstalled, providerAccount, now>>
  /\ AppEffect

\* The 1500 ms timer of forceWalletReset() fires: window.location.reload().
ForceReload ==
  /\ Reaction
  /\ forceResets.reload > 0
  /\ state' = initialState
  /\ dashboardRequestInProgress' = FALSE
  /\ requestCounter' = 0
  /\ fetches' = {}
  /\ connects' = {}
  /\ checkPending' = TRUE
  /\ accountHandlers' = <<>>
  /\ disconnects' = [wallet |-> 0, guidance |-> 0, verify |-> 0]
  /\ clearErrorTimer' = FALSE
  /\ forceResets' = NoForceResets
  /\ lastCall' = NoCall
  /\ UNCHANGED <<localStorage, metaMaskInstalled, providerAccount, now>>
  /\ AppEffect

\* ------------------------------------------------------------ error clearing
clearError ==
  /\ Stimulus
  /\ state.error # Null
  /\ state' = walletReducer(state, "CLEAR_ERROR", Null)
  /\ lastCall' = NoCall
  /\ UNCHANGED <<dashboardRequestInProgress, requestCounter, localStorage, fetches,
                 connects, checkPending, accountHandlers, disconnects, clearErrorTimer,
                 forceResets, metaMaskInstalled, providerAccount, now>>
  /\ AppEffect

\* A pending setTimeout(() => dispatch(CLEAR_ERROR)) fires; others may remain.
ClearErrorTimeout(another) ==
  /\ Reaction
  /\ clearErrorTimer
  /\ clearErrorTimer' = another
  /\ state' = walletReducer(state, "CLEAR_ERROR", Null)
  /\ lastCall' = NoCall
  /\ UNCHANGED <<dashboardRequestInProgress, requestCounter, localStorage, fetches,
                 connects, checkPending, accountHandlers, disconnects,
                 forceResets, metaMaskInstalled, providerAccount, now>>
  /\ AppEffect

\* Header: while an error is shown, the effect of the current render holds a
\* 5000 ms timer that calls clearError(); the timer fires.
HeaderErrorTimeout_NoTimer ==
  /\ FALSE
  /\ UNCHANGED vars

HeaderErrorTimeout ==
  /\ Reaction
  /\ state.error # Null
  /\ state' = walletReducer(state, "CLEAR_ERROR", Null)
  /\ lastCall' = NoCall
  /\ UNCHANGED <<dashboardRequestInProgress, requestCounter, localStorage, fetches,
                 connects, checkPending, accountHandlers, disconnects, clearErrorTimer,
                 forceResets, metaMaskInstalled, providerAccount, now>>
  /\ AppEffect

\* ------------------------------------------------------------ provider events
\* The provider switches to account a (Null: none left) and pushes
\* accountsChanged; the listener is that of the first render.
handleAccountsChanged(a) ==
  /\ Stimulus
  /\ metaMaskInstalled
  /\ a \in Addresses \cup {Null}
  /\ a # providerAccount
  /\ providerAccount' = a
  /\ IF a = Null THEN
       /\ disconnect(state)
       /\ UNCHANGED accountHandlers
     ELSE
       /\ accountHandlers' = Append(accountHandlers, a)
       /\ lastCall' = NoCall
       /\ UNCHANGED <<state, localStorage, disconnects>>
  /\ UNCHANGED <<dashboardRequestInProgress, requestCounter, fetches, connects,
                 checkPending, clearErrorTimer, forceResets, metaMaskInstalled, now>>
  /\ AppEffect

\* The account the getCurrentAccount() of the i-th pending handler returns: it
\* reads the provider's account after the event and resolves after further
\* provider calls (balance, network), so the account read is the event's or
\* a later one; null on a provider error.
\* The payload of SET_DASHBOARD_LOADED_THIS_SESSION that handleAccountsChanged
\* dispatches before SET_CONNECTED.
SessionFlagOnAccountsChanged_Kept == state.hasLoadedDashboardThisSession

SessionFlagOnAccountsChanged == FALSE

AccountRead(i) == {accountHandlers[i]} \cup CurrentAccountResults

RemoveAt(seq, i) == SubSeq(seq, 1, i - 1) \o SubSeq(seq, i + 1, Len(seq))

\* The getCurrentAccount() of the i-th pending handleAccountsChanged resolves.
AccountsChangedResolve(i, account) ==
  /\ Reaction
  /\ i \in 1..Len(accountHandlers)
  /\ account \in AccountRead(i)
  /\ accountHandlers' = RemoveAt(accountHandlers, i)
  /\ IF account # Null THEN
       LET s1 == walletReducer(state, "SET_DASHBOARD_LOADED_THIS_SESSION",
                               SessionFlagOnAccountsChanged)
           s2 == walletReducer(s1, "SET_CONNECTED", walletData(account))
       IN loadDashboardData(s2, account, TRUE, Closure(initialState), "accountsChanged")
     ELSE
       /\ lastCall' = NoCall
       /\ UNCHANGED <<state, dashboardRequestInProgress, requestCounter, fetches>>
  /\ UNCHANGED <<localStorage, connects, checkPending, disconnects, clearErrorTimer,
                 forceResets, metaMaskInstalled, providerAccount, now>>
  /\ AppEffect

\* chainChanged: window.location.reload().  The page starts again: reducer
\* state, module variables, pending promises and timers are gone; storage
\* and the provider are kept.
handleChainChanged_NoReload ==
  /\ Stimulus
  /\ metaMaskInstalled
  /\ lastCall' = Call("chainChanged", Null, FALSE, "none")
  /\ UNCHANGED <<state, dashboardRequestInProgress, requestCounter, localStorage,
                 fetches, connects, checkPending, accountHandlers, disconnects,
                 clearErrorTimer, forceResets, metaMaskInstalled, providerAccount, now>>
  /\ AppEffect

handleChainChanged ==
  /\ Stimulus
  /\ metaMaskInstalled
  /\ state' = initialState
  /\ dashboardRequestInProgress' = FALSE
  /\ requestCounter' = 0
  /\ fetches' = {}
  /\ connects' = {}
  /\ checkPending' = TRUE
  /\ accountHandlers' = <<>>
  /\ disconnects' = [wallet |-> 0, guidance |-> 0, verify |-> 0]
  /\ clearErrorTimer' = FALSE
  /\ forceResets' = NoForceResets
  /\ lastCall' = Call("chainChanged", Null, FALSE, "reload")
  /\ UNCHANGED <<localStorage, metaMaskInstalled, providerAccount, now>>
  /\ AppEffect

\* ---------------------------------------------------------------------- time
Tick ==
  /\ Stimulus
  /\ now' = now + TickMs
  /\ lastCall' = NoCall
  /\ UNCHANGED <<state, dashboardRequestInProgress, requestCounter, localStorage,
                 fetches, connects, checkPending, accountHandlers, disconnects,
                 clearErrorTimer, forceResets, metaMaskInstalled, providerAccount>>
  /\ AppEffect

\* --------------------------------------------------------------- specification
\* Entries an earlier page load can have left in storage for one address: one
\* already past the cache duration, one that passes it after the first tick.
PriorAddress == "0xA1"

PriorEntries(a) ==
  {[data |-> [wallet |-> a, timestamp |-> t \div 1000], lastUpdated |-> t] :
     t \in {StartMs - CACHE_DURATION, StartMs - CACHE_DURATION + TickMs}}

\* Entries that are unreadable or corrupt: a rejected document text with a
\* fresh timestamp, a document with a timestamp text that is no number, and
\* keys that cannot be accessed.
CorruptEntries(a) ==
  {[data |-> Unparseable, lastUpdated |-> StartMs - CACHE_DURATION + TickMs],
   [data |-> [wallet |-> a, timestamp |-> StartMs \div 1000], lastUpdated |-> NotANumber],
   Inaccessible}

Init ==
  /\ state = initialState
  /\ dashboardRequestInProgress = FALSE
  /\ requestCounter = 0
  /\ localStorage \in {[a \in Addresses |-> IF a = PriorAddress THEN e ELSE NoEntry] :
                         e \in PriorEntries(PriorAddress) \cup CorruptEntries(PriorAddress)
                                 \cup {NoEntry}}
  /\ fetches = {}
  /\ connects = {}
  /\ checkPending = TRUE
  /\ accountHandlers = <<>>
  /\ disconnects = [wallet |-> 0, guidance |-> 0, verify |-> 0]
  /\ clearErrorTimer = FALSE
  /\ forceResets = NoForceResets
  /\ appTimer = FALSE
  /\ metaMaskInstalled \in BOOLEAN
  /\ providerAccount \in (IF metaMaskInstalled THEN {PriorAddress, Null} ELSE {Null})
  /\ now = StartMs
  /\ calls = 0
  /\ lastCall = NoCall

Next ==
  \/ \E forceRefresh \in BOOLEAN : LoadCall(state.account, forceRefresh)
  \/ \E forceRefresh \in BOOLEAN : refreshDashboardData(forceRefresh)
  \/ loadDashboardOnPageLoad
  \/ \E f \in fetches : FetchSuccess(f)
  \/ \E f \in fetches : FetchFail(f)
  \/ \E walletAddress \in Addresses : clearCachedData(walletAddress)
  \/ clearAllCachedData
  \/ connect
  \/ \E cl \in connects, a \in Addresses : ConnectResolve(cl, a)
  \/ \E cl \in connects, code \in ConnectErrorCodes : ConnectReject(cl, code)
  \/ \E account \in Addresses \cup {Null} : checkConnection(account)
  \/ DisconnectCall
  \/ \E method \in {"revoke-permissions", "user-rejected", "manual", "no-metamask"} :
       DisconnectResolve(method)
  \/ \E needsGuidance \in BOOLEAN : DisconnectGuidance(needsGuidance)
  \/ \E currentAccount \in Addresses \cup {Null} : DisconnectVerify(currentAccount)
  \/ forceDisconnect
  \/ \E success \in BOOLEAN : ForceResetSettled(success)
  \/ ForceReload
  \/ clearError
  \/ \E another \in BOOLEAN : ClearErrorTimeout(another)
  \/ HeaderErrorTimeout
  \/ \E a \in Addresses \cup {Null} : handleAccountsChanged(a)
  \/ \E i \in 1..Len(accountHandlers), account \in Addresses \cup {Null} :
       AccountsChangedResolve(i, account)
  \/ handleChainChanged
  \/ Tick

Spec == Init /\ [][Next]_vars

\* Every dashboard request that is sent is eventually answered (with a
\* document or with a failure).
FairSpec ==
  Spec /\ WF_vars(\E f \in fetches : FetchSuccess(f) \/ FetchFail(f))

\* The timer the Header holds while an error is shown eventually fires.
FairTimers == Spec /\ WF_vars(HeaderErrorTimeout)

\* Every provider call and every dashboard request is eventually answered,
\* and the timers of AppContent and forceWalletReset() fire.
FairResolution ==
  /\ Spec
  /\ WF_vars(\E f \in fetches : FetchSuccess(f) \/ FetchFail(f))
  /\ WF_vars(\E i \in 1..Len(accountHandlers), account \in Addresses \cup {Null} :
               AccountsChangedResolve(i, account))
  /\ WF_vars(\E account \in Addresses \cup {Null} : checkConnection(account))
  /\ WF_vars(\E cl \in connects :
               \/ \E a \in Addresses : ConnectResolve(cl, a)
               \/ \E code \in ConnectErrorCodes : ConnectReject(cl, code))
  /\ WF_vars(\E success \in BOOLEAN : ForceResetSettled(success))
  /\ WF_vars(ForceReload)
  /\ WF_vars(loadDashboardOnPageLoad)

\* ====================================================================== claims

\* C1: in every reachable state at most one dashboard request is in flight,
\* and one is in flight only while the lock is held.
SingleFlight ==
  /\ Cardinality(fetches) <= 1
  /\ fetches # {} => dashboardRequestInProgress

\* A load was called while a request was in flight and one request remains.
SingleFlightWitness ==
  /\ lastCall.outcome = "in-progress"
  /\ Cardinality(fetches) = 1

\* C2 (as claimed): the answer to a request for an address that is no longer
\* the active account (with a document or with a cached fallback) leaves the
\* published snapshot and hasLoadedDashboardThisSession as they were.
LateResponseDiscarded ==
  [][(/\ lastCall'.op = "fetch"
      /\ lastCall'.outcome \in {"success", "fallback"}
      /\ state.account # lastCall'.walletAddress)
     => /\ state'.dashboardData = state.dashboardData
        /\ state'.hasLoadedDashboardThisSession = state.hasLoadedDashboardThisSession]_vars

\* C3 (as claimed): whenever the wallet is connected and a snapshot is
\* published, the snapshot is that of the active account.
SnapshotOfActiveAccount ==
  (state.isConnected /\ state.dashboardData # NoData)
    => state.dashboardData.wallet = state.account

\* C4: a load called while a request is in flight sends nothing and changes
\* neither the counter, the request time, the lock, the snapshot nor the
\* session flag (handleAccountsChanged has reset the flag before it calls
\* load); and the answer to a request starts no further request.
BlockedLoadIsNoOp ==
  [][/\ lastCall'.outcome = "in-progress"
        => /\ dashboardRequestInProgress
           /\ fetches' = fetches
           /\ dashboardRequestInProgress' = dashboardRequestInProgress
           /\ requestCounter' = requestCounter
           /\ localStorage' = localStorage
           /\ state'.lastDashboardRequestTime = state.lastDashboardRequestTime
           /\ state'.dashboardData = state.dashboardData
           /\ state'.isLoadingDashboard = state.isLoadingDashboard
           /\ state'.hasLoadedDashboardThisSession =
                (IF lastCall'.op = "accountsChanged" THEN FALSE
                 ELSE state.hasLoadedDashboardThisSession)
     /\ lastCall'.op = "fetch"
        => /\ fetches' \subseteq fetches
           /\ requestCounter' = requestCounter]_vars

\* A forced load was called while a request was in flight.
BlockedLoadWitness ==
  /\ lastCall.outcome = "in-progress"
  /\ lastCall.forceRefresh
  /\ fetches # {}

\* The calls of loadDashboardData: direct, through refreshDashboardData, and
\* from connect, checkConnection and handleAccountsChanged.
LoadOps == {"load", "refresh", "connect", "checkConnection", "accountsChanged"}

\* C5 (as claimed): when a request for an address fails and storage holds an
\* entry for that address, of whatever age, the stored snapshot is published
\* and the failure publishes no error.
FailureServesAnyCachedEntry ==
  (/\ lastCall.op = "fetch"
   /\ lastCall.outcome \in {"fallback", "error"}
   /\ localStorage[lastCall.walletAddress] # NoEntry)
    => /\ lastCall.outcome = "fallback"
       /\ state.dashboardData = localStorage[lastCall.walletAddress].data

\* C6 (as claimed): when a request for an address fails and storage holds no
\* entry for that address, the error is published and no snapshot is.
FailureWithoutCacheLeavesNoData ==
  (/\ lastCall.op = "fetch"
   /\ lastCall.outcome \in {"fallback", "error"}
   /\ localStorage[lastCall.walletAddress] = NoEntry)
    => /\ state.error = ErrDashboard
       /\ state.dashboardData = NoData

\* C7: the lock is held only while a request is in flight, and when every
\* request is eventually answered a held lock is eventually released.
LockAlwaysReleased ==
  /\ [](dashboardRequestInProgress => fetches # {})
  /\ dashboardRequestInProgress ~> ~dashboardRequestInProgress

\* A request has failed without a cached fallback and the lock is free.
LockReleasedWitness ==
  /\ lastCall.op = "fetch"
  /\ lastCall.outcome = "error"
  /\ ~dashboardRequestInProgress

\* The age of the entry the last answered request for an address left in
\* storage: the time since the last successful fetch for that address.
FetchedWithin(walletAddress, ms) ==
  /\ localStorage[walletAddress].lastUpdated # NullTime
  /\ now - localStorage[walletAddress].lastUpdated < ms

\* C8 (as claimed): a non-forced load sends a request only in a state where
\* hasLoadedDashboardThisSession is false or the last successful fetch for the
\* address is at least 60 s old; and a non-forced load that directly follows a
\* completed load for the same address (which set the flag) sends none.
NonForcedFetchAllowed ==
  [][/\ (/\ lastCall'.op \in LoadOps
          /\ lastCall'.outcome = "fetch"
          /\ ~lastCall'.forceRefresh)
         => \/ ~state.hasLoadedDashboardThisSession
            \/ ~FetchedWithin(lastCall'.walletAddress, DASHBOARD_REQUEST_RATE_LIMIT_MS)
     /\ (/\ lastCall.outcome \in {"success", "fallback", "cached"}
          /\ lastCall'.op \in LoadOps
          /\ ~lastCall'.forceRefresh
          /\ lastCall'.walletAddress = lastCall.walletAddress)
         => lastCall'.outcome # "fetch"]_vars

ForcedLoadFetches ==
  [][(/\ lastCall'.op \in LoadOps
      /\ lastCall'.forceRefresh
      /\ lastCall'.walletAddress # Null
      /\ ~dashboardRequestInProgress)
     => /\ lastCall'.outcome = "fetch"
        /\ dashboardRequestInProgress'
        /\ \E f \in fetches' \ fetches :
             f.walletAddress = lastCall'.walletAddress /\ f.forceRefresh]_vars

\* A forced load sent a request although the session flag was set, the last
\* request was less than 60 s old and the stored entry was fresh.
ForcedLoadWitness ==
  /\ lastCall.op \in {"load", "refresh"}
  /\ lastCall.outcome = "fetch"
  /\ lastCall.forceRefresh
  /\ state.hasLoadedDashboardThisSession
  /\ state.dashboardData.wallet = lastCall.walletAddress
  /\ isCacheValid(lastCall.walletAddress)

\* C11 (as claimed): a non-forced load called with the lock free and a fresh
\* entry in storage for its address sends no request and leaves the stored
\* snapshot as the published one.
FreshCacheServed ==
  [][(/\ lastCall'.op \in LoadOps
      /\ lastCall'.walletAddress # Null
      /\ ~lastCall'.forceRefresh
      /\ ~dashboardRequestInProgress
      /\ isCacheValid(lastCall'.walletAddress))
     => /\ fetches' = fetches
        /\ state'.dashboardData = localStorage[lastCall'.walletAddress].data]_vars

\* The steps in which disconnect() is called: by the user, and by
\* handleAccountsChanged when the event carries no account.
DisconnectCalled == DisconnectCall \/ handleAccountsChanged(Null)

\* The steps in which a pending call resumes after its provider call.
DisconnectResolved ==
  /\ disconnects'.wallet < disconnects.wallet
  /\ \E method \in DisconnectMethods : DisconnectResolve(method)

ConnectResolved(a) ==
  /\ connects' # connects
  /\ \E cl \in connects : ConnectResolve(cl, a)

ConnectRejected(code) ==
  /\ connects' # connects
  /\ \E cl \in connects : ConnectReject(cl, code)

AccountsChangedResolved(account) ==
  /\ Len(accountHandlers') < Len(accountHandlers)
  /\ \E i \in 1..Len(accountHandlers) : AccountsChangedResolve(i, account)

\* C12: the session flag is false right after disconnect() has reset the
\* state, and right after a handleAccountsChanged that set the account (the
\* load it starts is forced and has not completed).
SessionFlagReset ==
  [][/\ DisconnectResolved => ~state'.hasLoadedDashboardThisSession
     /\ \A account \in Addresses :
          AccountsChangedResolved(account)
            => /\ state'.account = account
               /\ ~state'.hasLoadedDashboardThisSession]_vars

\* An account change was handled while the session flag was set: the snapshot
\* of the former account is still there and the flag is down.
SessionFlagResetWitness ==
  /\ lastCall.op = "accountsChanged"
  /\ lastCall.walletAddress # Null
  /\ state.dashboardData # NoData
  /\ state.dashboardData.wallet # state.account
  /\ ~state.hasLoadedDashboardThisSession

\* C13 (as claimed): handling chainChanged leaves the session flag as it was.
ChainChangeKeepsSessionFlag ==
  [][handleChainChanged
       => state'.hasLoadedDashboardThisSession = state.hasLoadedDashboardThisSession]_vars

\* C14 (as claimed): when the last pending handleAccountsChanged has set the
\* account and no disconnect() is pending, the account is the one the provider
\* switched to last.
AccountsChangedInOrder ==
  (/\ lastCall.op = "accountsChanged"
   /\ lastCall.walletAddress # Null
   /\ accountHandlers = <<>>
   /\ disconnects.wallet = 0)
    => state.account = providerAccount

\* C15: the step that ends a connect() (no provider, authorized, failed) or
\* in which disconnect() resumes after disconnectWallet() leaves isConnecting
\* false.
ConnectingCleared ==
  [][(\/ ~metaMaskInstalled /\ connect
      \/ \E a \in Addresses : ConnectResolved(a)
      \/ \E code \in ConnectErrorCodes : ConnectRejected(code)
      \/ DisconnectResolved)
     => ~state'.isConnecting]_vars

\* A connect() has failed and isConnecting is false.
ConnectingClearedWitness ==
  /\ state.error \in {ErrRejected, ErrPending, ErrProvider, ErrConnectFailed}
  /\ ~state.isConnecting
  /\ connects = {}

\* C16 (as claimed): the call of disconnect() resets the connection state
\* without waiting for the provider.
DisconnectResetsAtOnce ==
  [][DisconnectCalled => (~state'.isConnected /\ state'.account = Null)]_vars

\* C17 (as claimed): when forceDisconnect() restarts the page no dashboard
\* entry is left in storage and the in-memory state is the initial one.
ForceDisconnectClearsAll ==
  [][ForceReload
       => /\ \A a \in Addresses : localStorage'[a] = NoEntry
          /\ state' = initialState
          /\ ~dashboardRequestInProgress'
          /\ fetches' = {}]_vars

\* C18 (as claimed): connect() without a provider only sets the error.
ConnectUnavailableOnlyReports ==
  [][(~metaMaskInstalled /\ connect)
       => /\ state' = [state EXCEPT !.error = ErrNotInstalled]
          /\ connects' = connects
          /\ fetches' = fetches]_vars

\* C18 (amended): connect() without a provider sets the error and clears
\* isConnecting; every other field, the pending provider calls and the
\* requests stay as they were.
ConnectUnavailableReports ==
  [][(~metaMaskInstalled /\ connect)
       => /\ state' = [state EXCEPT !.error = ErrNotInstalled, !.isConnecting = FALSE]
          /\ connects' = connects
          /\ fetches' = fetches
          /\ requestCounter' = requestCounter
          /\ dashboardRequestInProgress' = dashboardRequestInProgress]_vars

\* connect() was called without a provider.
ConnectUnavailableWitness ==
  /\ ~metaMaskInstalled
  /\ state.error = ErrNotInstalled
  /\ ~state.isConnecting

\* C19: when connectMetaMask() resolves with an account, the state is
\* connected with that account, its balance and network, without error, and
\* loadDashboardData is called non-forced for the account.
ConnectSuccess ==
  [][\A a \in Addresses :
       ConnectResolved(a)
         => /\ state'.isConnected
            /\ ~state'.isConnecting
            /\ state'.account = a
            /\ state'.balance = walletData(a).balance
            /\ state'.network = walletData(a).network
            /\ state'.error = Null
            /\ lastCall'.op = "connect"
            /\ lastCall'.walletAddress = a
            /\ ~lastCall'.forceRefresh]_vars

\* A connect() was authorized and its load sent a request.
ConnectSuccessWitness ==
  /\ lastCall.op = "connect"
  /\ lastCall.outcome = "fetch"
  /\ state.isConnected
  /\ state.account = lastCall.walletAddress
  /\ state.network = Mainnet

\* C20: when connectMetaMask() fails, the error is the one of its code (4001,
\* -32002, the provider's message, or the generic message when the provider
\* gave none), isConnecting is false and isConnected is unchanged.
ConnectFailureClassified ==
  [][\A code \in ConnectErrorCodes :
       ConnectRejected(code)
         => /\ state'.error = (CASE code = 4001 -> ErrRejected
                                 [] code = -32002 -> ErrPending
                                 [] code = 1 -> ErrProvider
                                 [] OTHER -> ErrConnectFailed)
            /\ ~state'.isConnecting
            /\ state'.isConnected = state.isConnected
            /\ state'.account = state.account]_vars

\* A connect() was rejected by the user while the wallet was not connected.
ConnectFailureWitness ==
  /\ state.error = ErrRejected
  /\ ~state.isConnected
  /\ ~state.isConnecting

\* C21: an accountsChanged event without accounts does to the connection
\* state, the lock, the requests and storage what a call of disconnect() does
\* in the same state, and when the disconnect() either of them started
\* resumes, the state is the initial one, the session flag is false, and the
\* lock and the requests are as they were.
EmptyAccountsIsDisconnect ==
  [][/\ DisconnectCalled
        => /\ state' = walletReducer(state, "SET_CONNECTING", Null)
           /\ disconnects' = [disconnects EXCEPT !.wallet = @ + 1]
           /\ localStorage' = localStorage
           /\ dashboardRequestInProgress' = dashboardRequestInProgress
           /\ fetches' = fetches
           /\ accountHandlers' = accountHandlers
     /\ DisconnectResolved
        => /\ state' = initialState
           /\ ~state'.isConnected
           /\ ~state'.hasLoadedDashboardThisSession
           /\ dashboardRequestInProgress' = dashboardRequestInProgress
           /\ fetches' = fetches]_vars

\* The provider withdrew the account of a session that had loaded the
\* dashboard of 0xB2, and the disconnect() this started has reset the state.
EmptyAccountsWitness ==
  /\ metaMaskInstalled
  /\ providerAccount = Null
  /\ localStorage["0xB2"] # NoEntry
  /\ disconnects.wallet = 0
  /\ disconnects.guidance + disconnects.verify > 0
  /\ state = initialState

\* C22: handling chainChanged restarts the page: the reducer state (with the
\* connection state, the session flag and the last request time), the lock and
\* the request counter have their initial values and nothing is pending,
\* while every entry in storage is unchanged and every address gets from the
\* cache what it got before; the load of the check that follows the restart
\* publishes the fresh entry of its account without a request.
ChainChangeRestarts ==
  [][/\ (/\ lastCall.op = "chainChanged"
          /\ lastCall'.op \in LoadOps
          /\ getCachedData(lastCall'.walletAddress) # NoData)
         => /\ lastCall'.outcome = "cached"
            /\ state'.dashboardData = localStorage[lastCall'.walletAddress].data
            /\ fetches' = {}
     /\ handleChainChanged
       => /\ state' = initialState
          /\ ~dashboardRequestInProgress'
          /\ requestCounter' = 0
          /\ fetches' = {}
          /\ connects' = {}
          /\ accountHandlers' = <<>>
          /\ checkPending'
          /\ localStorage' = localStorage
          /\ \A a \in Addresses : getCachedData(a)' = getCachedData(a)]_vars

\* The chain changed after the dashboard of 0xB2 had been stored: the lock is
\* free, the state is the initial one and the entry of 0xB2 is still served.
ChainChangeWitness ==
  /\ lastCall.op = "chainChanged"
  /\ state = initialState
  /\ ~dashboardRequestInProgress
  /\ getCachedData("0xB2") # NoData

\* The answer to a request was a failure: served from the cache or reported.
FetchFailed(call) ==
  call.op = "fetch" /\ call.outcome \in {"fallback", "error"}

\* C23: the step in which a request fails, with or without a cached
\* fallback, leaves isConnected, the account, the balance, the network and
\* isConnecting as they were and releases the lock; in the state it leaves,
\* connect(), disconnect() and a load can be called, and the call that
\* follows is carried out: connect() awaits the provider, disconnect()
\* awaits disconnectWallet(), a load is not refused for a request in progress
\* and a forced load sends its request.
FetchFailureKeepsConnection ==
  /\ [][FetchFailed(lastCall')
          => /\ state'.isConnected = state.isConnected
             /\ state'.account = state.account
             /\ state'.balance = state.balance
             /\ state'.network = state.network
             /\ state'.isConnecting = state.isConnecting
             /\ ~dashboardRequestInProgress'
             /\ connects' = connects
             /\ disconnects' = disconnects]_vars
  /\ []((FetchFailed(lastCall) /\ calls < MaxCalls)
          => /\ ENABLED connect
             /\ ENABLED DisconnectCall
             /\ \A forceRefresh \in BOOLEAN : ENABLED LoadCall(state.account, forceRefresh))
  /\ [][FetchFailed(lastCall)
          => /\ (metaMaskInstalled /\ connect)
                  => (state'.isConnecting /\ Closure(state) \in connects')
             /\ DisconnectCall
                  => (state'.isConnecting /\ disconnects'.wallet = disconnects.wallet + 1)
             /\ lastCall'.op \in LoadOps
                  => /\ lastCall'.outcome # "in-progress"
                     /\ lastCall'.forceRefresh => lastCall'.outcome = "fetch"]_vars

\* A request for the connected account failed without a cached fallback: the
\* wallet is still connected with its account and network, and the lock is
\* free.
FetchFailureWitness ==
  /\ FetchFailed(lastCall)
  /\ lastCall.outcome = "error"
  /\ state.isConnected
  /\ state.account = lastCall.walletAddress
  /\ state.network = Mainnet
  /\ state.error = ErrDashboard
  /\ ~dashboardRequestInProgress

\* The age of the entry stored for an address.
CacheAge(walletAddress) == now - localStorage[walletAddress].lastUpdated

\* C24 (as claimed): the cache read returns a document only for an entry
\* younger than CACHE_DURATION; for an entry of that age or older it returns
\* none, while the read used as the fallback of a failed request still
\* returns that entry's document.
StaleEntryForFallbackOnly ==
  \A a \in Addresses :
    /\ getCachedData(a) # NoData
         => (localStorage[a] # NoEntry /\ CacheAge(a) < CACHE_DURATION)
    /\ (localStorage[a] # NoEntry /\ CacheAge(a) >= CACHE_DURATION)
         => /\ getCachedData(a) = NoData
            /\ FallbackRead(a) = localStorage[a].data

\* C25: the entry stored for an address holds a document of that address,
\* and it changes only when a document answered for that address is stored
\* (the new entry is that document with the time of the answer) or when it is
\* removed by clearCachedData for that address or by clearAllCachedData: the
\* storing of a document for another address, the removal of another
\* address's entry and an account change leave it, and what the cache read
\* returns for it, as they were.
CachePartitioned ==
  /\ [](\A b \in Addresses :
          /\ localStorage[b].data.wallet \in {b, NoData.wallet, Unparseable.wallet,
                                               Inaccessible.data.wallet}
          /\ getCachedData(b) # NoData => getCachedData(b).wallet = b)
  /\ [][\A b \in Addresses :
          /\ localStorage'[b] # localStorage[b]
               => \/ /\ lastCall'.op = "fetch"
                     /\ lastCall'.outcome = "success"
                     /\ lastCall'.walletAddress = b
                     /\ localStorage'[b] = [data |-> Response(b), lastUpdated |-> now]
                  \/ /\ localStorage'[b] = NoEntry
                     /\ clearCachedData(b) \/ clearAllCachedData
          /\ (localStorage'[b] = localStorage[b] /\ now' = now)
               => getCachedData(b)' = getCachedData(b)]_vars

\* After an account change from 0xA1, whose dashboard was stored in this
\* session, the dashboard of 0xB2 has been stored: both entries are there,
\* each with the document of its address.
CachePartitionedWitness ==
  /\ lastCall.op = "fetch"
  /\ lastCall.outcome = "success"
  /\ lastCall.walletAddress = "0xB2"
  /\ state.account = "0xB2"
  /\ localStorage["0xB2"].data.wallet = "0xB2"
  /\ localStorage["0xA1"].lastUpdated >= StartMs
  /\ localStorage["0xA1"].data.wallet = "0xA1"

\* The entry stored for an address is unreadable or corrupt.
Corrupt(walletAddress) ==
  \/ StorageThrows(walletAddress)
  \/ localStorage[walletAddress].lastUpdated = NotANumber
  \/ localStorage[walletAddress].data = Unparseable

\* C26: for an address whose stored entry is unreadable or corrupt the cache
\* read returns none, and a load for it that gets as far as the read treats it
\* as a miss: it sends the request, and publishes neither a document nor an
\* error in that step.
CorruptEntryIsMiss ==
  /\ [](\A a \in Addresses :
          /\ Corrupt(a) => (getCachedData(a) = NoData /\ FallbackRead(a) = NoData)
          /\ getCachedData(a) \notin {Unparseable, Inaccessible.data})
  /\ [][(/\ lastCall'.op \in LoadOps
         /\ Corrupt(lastCall'.walletAddress)
         /\ lastCall'.outcome \notin {"in-progress", "already-loaded", "rate-limited"})
        => /\ lastCall'.outcome = "fetch"
           /\ state'.dashboardData = state.dashboardData
           /\ state'.error \in {state.error, Null}
           /\ state'.error # ErrDashboard \/ state.error = ErrDashboard
           /\ \E f \in fetches' : f.walletAddress = lastCall'.walletAddress]_vars

\* A non-forced load for 0xA1, whose stored entry is corrupt, has sent a
\* request and no error is published.
CorruptEntryWitness ==
  /\ lastCall.op \in LoadOps
  /\ ~lastCall.forceRefresh
  /\ lastCall.outcome = "fetch"
  /\ Corrupt(lastCall.walletAddress)
  /\ state.error = Null
  /\ state.dashboardData = NoData

\* C27: an entry disappears from storage only in a step of clearCachedData
\* for its address or of clearAllCachedData; a step that calls or answers a
\* load removes none, and a step that changes the account of the state or of
\* the provider (connect, disconnect, account change, restart) leaves storage
\* as it was.
EntryRemovedOnlyByInvalidation ==
  [][/\ \A a \in Addresses :
          (localStorage[a] # NoEntry /\ localStorage'[a] = NoEntry)
            => (clearCachedData(a) \/ clearAllCachedData)
     /\ (lastCall'.op \in LoadOps \/ FetchFailed(lastCall'))
          => localStorage' = localStorage
     /\ (lastCall'.op = "fetch" /\ lastCall'.outcome = "success")
          => \A a \in Addresses :
               /\ localStorage[a] # NoEntry => localStorage'[a] # NoEntry
               /\ a # lastCall'.walletAddress => localStorage'[a] = localStorage[a]
     /\ (\/ state'.account # state.account
         \/ state'.isConnected # state.isConnected
         \/ state'.isConnecting # state.isConnecting
         \/ providerAccount' # providerAccount)
          => localStorage' = localStorage]_vars

\* The account changed from 0xA1, whose stored dashboard is published, to
\* 0xB2: the entry of 0xA1 is the one that was there.
EntryKeptWitness ==
  /\ lastCall.op = "accountsChanged"
  /\ state.account = "0xB2"
  /\ state.dashboardData.wallet = "0xA1"
  /\ localStorage["0xA1"] \in PriorEntries("0xA1")
  /\ localStorage["0xA1"].data = state.dashboardData

\* C28: an error that is published is eventually cleared (by clearError(), by
\* a handler, or by the timer that is pending while it is shown), and while
\* one is shown connect() can be called and starts: with a provider it sets
\* isConnecting, clears the error and awaits the provider.
ErrorEventuallyCleared ==
  /\ (state.error # Null) ~> (state.error = Null)
  /\ []((state.error # Null /\ calls < MaxCalls) => ENABLED connect)
  /\ [][(state.error # Null /\ metaMaskInstalled /\ connect)
          => /\ state'.isConnecting
             /\ state'.error = Null
             /\ Closure(state) \in connects']_vars

\* Without any call from the user, the dashboard error of the on-mount load
\* was published and has been cleared while the Provider's own timer is
\* still pending.
ErrorClearedWitness ==
  /\ calls = 0
  /\ clearErrorTimer
  /\ state.error = Null
  /\ state.isConnected
  /\ ~dashboardRequestInProgress

CacheWrittenUnderLock ==
  [][/\ \A a \in Addresses :
          (localStorage'[a] # localStorage[a] /\ localStorage'[a] # NoEntry)
            => /\ dashboardRequestInProgress
               /\ lastCall'.op = "fetch"
               /\ lastCall'.outcome = "success"
               /\ lastCall'.walletAddress = a
               /\ \E f \in fetches : f.walletAddress = a /\ fetches' = fetches \ {f}
     /\ localStorage' # localStorage
          => \/ lastCall'.op = "fetch"
             \/ clearAllCachedData
             \/ \E a \in Addresses : clearCachedData(a)
     /\ dashboardRequestInProgress' # dashboardRequestInProgress
          => \/ /\ lastCall'.op \in LoadOps
                /\ lastCall'.outcome = "fetch"
                /\ dashboardRequestInProgress'
             \/ /\ lastCall'.op = "fetch"
                /\ ~dashboardRequestInProgress'
             \/ handleChainChanged
             \/ ForceReload]_vars

\* The answer to the request for the connected account was stored while a
\* disconnect() was awaiting the provider: the entry is the answer's, and the
\* lock, held until then, is free.
CacheWrittenWitness ==
  /\ lastCall.op = "fetch"
  /\ lastCall.outcome = "success"
  /\ localStorage[lastCall.walletAddress].lastUpdated = now
  /\ disconnects.wallet > 0
  /\ state.isConnecting
  /\ ~dashboardRequestInProgress

\* C31 (as claimed): once handleAccountsChanged has set the account to b, and
\* as long as b stays the account of a connected wallet, eventually a
\* document of b or an error is published.
AccountSwitchPublishes ==
  \A b \in Addresses :
    (/\ lastCall.op = "accountsChanged"
     /\ lastCall.walletAddress = b
     /\ state.account = b)
      ~> (\/ state.dashboardData.wallet = b
          \/ state.error # Null
          \/ state.account # b
          \/ ~state.isConnected)


\* C32 (as claimed): in every state where the wallet is disconnected
\* (isConnected false, no account) no document is published,
\* hasLoadedDashboardThisSession is false and isLoadingDashboard is false.
DisconnectedStateIsClean ==
  (~state.isConnected /\ state.account = Null)
    => /\ state.dashboardData = NoData
       /\ ~state.hasLoadedDashboardThisSession
       /\ ~state.isLoadingDashboard


\* C33 (as claimed): forceDisconnect() does not leave isConnecting true for
\* ever: when isConnecting is true and neither connect() nor disconnect()
\* is under way, eventually the page is reloaded or isConnecting is false.
ForceDisconnectSettles ==
  (/\ state.isConnecting
   /\ connects = {}
   /\ disconnects = [wallet |-> 0, guidance |-> 0, verify |-> 0])
    ~> ~state.isConnecting


\* C34 (as claimed): in every state isLoadingDashboard is true exactly when
\* the lock dashboardRequestInProgress is held.
LoadingFlagMirrorsLock ==
  state.isLoadingDashboard <=> dashboardRequestInProgress


\* C35 (as claimed): a failed request for an address answered from the cache
\* sets hasLoadedDashboardThisSession, and from then on no non-forced load
\* of that address sends a request while the flag is set.
FallbackEndsNonForcedFetches ==
  \A a \in Addresses :
    [](lastCall.outcome = "fallback" /\ lastCall.walletAddress = a
         => /\ state.hasLoadedDashboardThisSession
            /\ [] ~(/\ lastCall.outcome = "fetch"
                    /\ lastCall.walletAddress = a
                    /\ ~lastCall.forceRefresh
                    /\ state.hasLoadedDashboardThisSession))

\* The errors for which the Provider starts a CLEAR_ERROR timer.
TimedErrors == {ErrDashboard, ErrManualGuidance, ErrStillConnected}

\* C36 (as claimed): a CLEAR_ERROR timer of the Provider clears only the
\* error it was started for: the error it removes is one of those for which
\* the Provider starts a timer, never a later error of another kind.
TimerClearsOwnError ==
  [][(\E another \in BOOLEAN : ClearErrorTimeout(another)) /\ state.error # Null
       => state.error \in TimedErrors]_vars


\* ------------------------------------------- dashboardService: data freshness
\* getTimestamp(): dashboardData.timestamp || null.  A document without a
\* timestamp, or with timestamp 0, has timestamp 0 here.
NoTimestamp == 0
getTimestamp(dashboardData) == dashboardData.timestamp

\* getDataAgeInMinutes(): <<>> is null, <<n>> the number n.
getDataAgeInMinutes_Rounded(dashboardData) ==
  LET timestamp == getTimestamp(dashboardData)
  IN IF timestamp = NoTimestamp THEN <<>>
     ELSE <<(now - timestamp * 1000 + 30 * 1000) \div (1000 * 60)>>

getDataAgeInMinutes(dashboardData) ==
  LET timestamp == getTimestamp(dashboardData)
      dataTime == timestamp * 1000
  IN IF timestamp = NoTimestamp THEN <<>>
     ELSE <<(now - dataTime) \div (1000 * 60)>>

FreshMinutes == 5

isDataFresh(dashboardData) ==
  LET ageInMinutes == getDataAgeInMinutes(dashboardData)
  IN ageInMinutes # <<>> /\ ageInMinutes[1] < FreshMinutes

\* The readings of Date.now() and the timestamps (unix seconds; 0: none) of
\* the published document for which isDataFresh() is evaluated: ages one
\* millisecond and one second around five minutes, and a timestamp ahead of
\* the clock.
FreshnessClocks == {StartMs - 1, StartMs, StartMs + 1, StartMs + TickMs - 1, StartMs + TickMs}
SnapshotTimestamps ==
  {NoTimestamp, (StartMs - CACHE_DURATION) \div 1000 - 1, (StartMs - CACHE_DURATION) \div 1000,
   (StartMs - CACHE_DURATION) \div 1000 + 1, (StartMs - CACHE_DURATION + TickMs) \div 1000,
   StartMs \div 1000, StartMs \div 1000 + 1, (StartMs + CACHE_DURATION) \div 1000}

\* A component evaluates isDataFresh(dashboardData) for the document the
\* context publishes.
FreshnessCheck ==
  /\ state.dashboardData # NoData
  /\ lastCall.op # "isDataFresh"
  /\ lastCall' = Call("isDataFresh", state.dashboardData.wallet, FALSE,
                      IF isDataFresh(state.dashboardData) THEN "fresh" ELSE "not-fresh")
  /\ UNCHANGED <<state, dashboardRequestInProgress, requestCounter, localStorage, fetches,
                 connects, checkPending, accountHandlers, disconnects, clearErrorTimer,
                 forceResets, appTimer, metaMaskInstalled, providerAccount, now, calls>>

\* The wallet is connected and a document of it is published; the document's
\* timestamp, the clock and the stored entry of the wallet vary independently.
FreshnessInit ==
  /\ \E t \in SnapshotTimestamps :
       state = walletReducer(
                 walletReducer(initialState, "SET_CONNECTED", walletData(PriorAddress)),
                 "SET_DASHBOARD_DATA", [wallet |-> PriorAddress, timestamp |-> t])
  /\ dashboardRequestInProgress = FALSE
  /\ requestCounter = 1
  /\ localStorage \in {[a \in Addresses |-> IF a = PriorAddress THEN e ELSE NoEntry] :
                         e \in PriorEntries(PriorAddress) \cup {NoEntry}}
  /\ fetches = {}
  /\ connects = {}
  /\ checkPending = FALSE
  /\ accountHandlers = <<>>
  /\ disconnects = [wallet |-> 0, guidance |-> 0, verify |-> 0]
  /\ clearErrorTimer = FALSE
  /\ forceResets = NoForceResets
  /\ appTimer = FALSE
  /\ metaMaskInstalled = TRUE
  /\ providerAccount = PriorAddress
  /\ now \in FreshnessClocks
  /\ calls = 0
  /\ lastCall = NoCall

FreshnessNext == FreshnessCheck

FreshnessSpec == FreshnessInit /\ [][FreshnessNext]_vars

\* C37: isDataFresh() of the published document is true exactly when the
\* document has a timestamp and Date.now() - timestamp * 1000 is below
\* 300000 ms, whatever the stored entry of the wallet says.
SnapshotFreshness ==
  lastCall.op = "isDataFresh"
    => (lastCall.outcome = "fresh"
          <=> /\ state.dashboardData.timestamp # NoTimestamp
              /\ now - state.dashboardData.timestamp * 1000 < 300000)

\* isDataFresh() has answered true for a document 299999 ms old whose wallet
\* has no valid stored entry.
SnapshotFreshWitness ==
  /\ lastCall.op = "isDataFresh"
  /\ lastCall.outcome = "fresh"
  /\ now - state.dashboardData.timestamp * 1000 = 299999
  /\ ~isCacheValid(state.dashboardData.wallet)

============================================================================
